---- MODULE Spec2Model ----
(***************************************************************************)
(* Model of the DSA wiki crawler (n1ru4l/dsa-wiki-crawler).                *)
(*                                                                         *)
(* A JavaScript string is modelled as a sequence of tokens; the string is  *)
(* the concatenation of its tokens.  Every character that the code's       *)
(* patterns treat specially ("[", "]", "(", ")", "*", " ", newline, "/",   *)
(* "#") is a token of its own and no other token contains one of them, so  *)
(* that a substring or regular-expression match of the code is a match on  *)
(* token boundaries.  The character "$" (special in the replacement        *)
(* argument of String.prototype.replace) is not in the alphabet.           *)
(***************************************************************************)
EXTENDS Integers, Sequences, FiniteSets, TLC

(***************************************************************************)
(* Bounds of the model.                                                    *)
(***************************************************************************)
\* number of entries of ENTRY_POINTS the model seeds from
MaxSeeds == 2
\* cap on the length of the frontier array `links`
MaxFrontier == 2
\* longest link string, in tokens, normalizeLink is called with on its own
MaxLinkLen == 5
\* most pieces a text parseLinks is called with on its own is made of
MaxPieces == 4

(***************************************************************************)
(* Configuration constants.                                                *)
(***************************************************************************)
ID_PREFIX == <<"dsa-rule-">>

PREFIX == <<"https:", "/", "/", "ulisses-regelwiki.de", "/">>

ENTRY_POINTS ==
  << <<"index.php", "/", "regeln", ".html">>,
     <<"index.php", "/", "spezies", ".html">>,
     <<"index.php", "/", "kulturen", ".html">>,
     <<"index.php", "/", "professionen", ".html">>,
     <<"index.php", "/", "sonderfertigkeiten", ".html">>,
     <<"index.php", "/", "vor-und-nachteile", ".html">>,
     <<"index.php", "/", "magie", ".html">>,
     <<"index.php", "/", "goetterwirken", ".html">>,
     <<"index.php", "/", "ruestkammer", ".html">>,
     <<"index.php", "/", "bestiarium", ".html">>,
     <<"index.php", "/", "herbarium", ".html">>,
     <<"index.php", "/", "GifteundKrankheiten", ".html">>,
     <<"index.php", "/", "WdV18", ".html">> >>

(***************************************************************************)
(* String primitives of the JavaScript runtime, on token sequences.        *)
(***************************************************************************)
\* s.startsWith(pat) at 1-based position p
MatchesAt(s, pat, p) ==
  /\ p + Len(pat) - 1 <= Len(s)
  /\ \A j \in 1..Len(pat) : s[p + j - 1] = pat[j]

\* s.indexOf(pat) + 1; 0 when pat does not occur
IndexOf(s, pat) ==
  LET hits == {p \in 1..(Len(s) + 1) : MatchesAt(s, pat, p)}
  IN  IF hits = {} THEN 0 ELSE CHOOSE p \in hits : \A q \in hits : p <= q

\* s.replace(pat, rep) with a string pattern: the first occurrence only
ReplaceFirst(s, pat, rep) ==
  LET p == IndexOf(s, pat)
  IN  IF p = 0 THEN s
      ELSE SubSeq(s, 1, p - 1) \o rep \o SubSeq(s, p + Len(pat), Len(s))

\* the tokens of s after its last "/": s.split("/").pop()
LastSegment(s) ==
  LET slashes == {p \in 1..Len(s) : s[p] = "/"}
      last == IF slashes = {} THEN 0
              ELSE CHOOSE p \in slashes : \A q \in slashes : q <= p
  IN  SubSeq(s, last + 1, Len(s))

(***************************************************************************)
(* Identifier normalizer.                                                  *)
(***************************************************************************)
normalizeLink(link) ==
  ReplaceFirst(
    ReplaceFirst(
      ReplaceFirst(link, <<"https:", "/", "/", "ulisses-regelwiki.de", "/">>, <<>>),
      <<"http:", "/", "/", "ulisses-regelwiki.de", "/">>, <<>>),
    <<"ulisses-regelwiki.de", "/">>, <<>>)

\* convertLinkToId taking the first path segment (shift) where the code takes
\* the last (pop)
convertLinkToIdShift(linkTarget) ==
  LET t == normalizeLink(linkTarget)
      slashes == {p \in 1..Len(t) : t[p] = "/"}
      first == IF slashes = {} THEN Len(t) + 1
               ELSE CHOOSE p \in slashes : \A q \in slashes : p <= q
  IN  ReplaceFirst(SubSeq(t, 1, first - 1), <<".html">>, <<>>)

convertLinkToId(linkTarget) ==
  ReplaceFirst(LastSegment(normalizeLink(linkTarget)), <<".html">>, <<>>)

linkToId(link) == ID_PREFIX \o convertLinkToId(link)

sanitizeTitle(title) == ReplaceFirst(title, <<" - DSA Regel Wiki">>, <<>>)

(***************************************************************************)
(* Link extractor.                                                         *)
(***************************************************************************)
\* first position >= p of s holding a token of the set stop; Len(s) + 1 if none
FirstOf(s, p, stop) ==
  LET hits == {q \in p..Len(s) : s[q] \in stop}
  IN  IF hits = {} THEN Len(s) + 1 ELSE CHOOSE q \in hits : \A r \in hits : q <= r

\* regexMdLinks tried at position p of text: the position of the closing ")"
\* of the match that starts at p, 0 when there is none.  The display text
\* [^\[]+ is greedy, so the last "](" before the next "[" that is followed by
\* a target [^[\[\])]* and a ")" ends it.
MdLinkEnd(text, p) ==
  IF p > Len(text) \/ text[p] # "[" THEN 0
  ELSE LET limit == FirstOf(text, p + 1, {"["})
           TargetEnd(q) == FirstOf(text, q + 2, {"[", "]", ")"})
           ok == {q \in (p + 2)..(limit - 1) :
                    /\ text[q] = "]"
                    /\ q + 1 <= Len(text) /\ text[q + 1] = "("
                    /\ TargetEnd(q) <= Len(text)
                    /\ text[TargetEnd(q)] = ")"}
       IN  IF ok = {} THEN 0
           ELSE TargetEnd(CHOOSE q \in ok : \A r \in ok : r <= q)

\* text.match(regexMdLinks) from position p on: the matched substrings, left
\* to right, each search resuming after the previous match
RECURSIVE MdMatches(_, _)
MdMatches(text, p) ==
  IF p > Len(text) THEN <<>>
  ELSE IF MdLinkEnd(text, p) # 0
       THEN <<SubSeq(text, p, MdLinkEnd(text, p))>> \o
            MdMatches(text, MdLinkEnd(text, p) + 1)
       ELSE MdMatches(text, p + 1)

\* singleMatch.exec(m) for a match m of regexMdLinks (m holds one "[", its
\* first token): the splits <<q, c>> with "](" at q and the closing ")" at c.
\* The dot of (.*) does not match a newline.
SingleSplits(m) ==
  {qc \in (3..Len(m)) \X (3..Len(m)) :
     /\ m[qc[1]] = "]"
     /\ qc[1] + 1 <= Len(m) /\ m[qc[1] + 1] = "("
     /\ qc[2] >= qc[1] + 2
     /\ m[qc[2]] = ")"
     /\ \A r \in (qc[1] + 2)..(qc[2] - 1) : m[r] # "\n"}

\* the split exec returns: greedy display text first, greedy target second
SingleSplit(m) ==
  CHOOSE qc \in SingleSplits(m) :
    \A rd \in SingleSplits(m) :
      \/ rd[1] < qc[1]
      \/ rd[1] = qc[1] /\ rd[2] <= qc[2]

\* singleMatch.exec returns null and the destructuring assignment throws
parseLinksThrows(text) ==
  \E n \in 1..Len(MdMatches(text, 1)) : SingleSplits(MdMatches(text, 1)[n]) = {}

parseLinks(text) ==
  LET matches == MdMatches(text, 1)
  IN  [n \in 1..Len(matches) |->
         LET m == matches[n]
             qc == SingleSplit(m)
             link == SubSeq(m, qc[1] + 2, qc[2] - 1)
         IN  [text |-> SubSeq(m, 2, qc[1] - 1),
              wholeLink |-> link,
              link |-> normalizeLink(link)]]

(***************************************************************************)
(* Text repairs of parseSite.                                              *)
(***************************************************************************)
\* number of consecutive tokens equal to tok starting at position p
RECURSIVE RunLen(_, _, _)
RunLen(s, p, tok) ==
  IF p <= Len(s) /\ s[p] = tok THEN 1 + RunLen(s, p + 1, tok) ELSE 0

\* markdown.replace(/\* *\n*([^\*]+) *\*/g, (_, content) => `*${content}*`)
\* from position p on.  After the opening "*" the spaces and then the newlines
\* are skipped; the content runs to the next "*"; when the skipping leaves no
\* content, the last skipped token is the content.
RECURSIVE repairEmphasis(_, _)
repairEmphasis(s, p) ==
  IF p > Len(s) THEN <<>>
  ELSE IF s[p] # "*" THEN <<s[p]>> \o repairEmphasis(s, p + 1)
  ELSE LET a == RunLen(s, p + 1, " ")
           b == RunLen(s, p + 1 + a, "\n")
           st == p + 1 + a + b
           t == FirstOf(s, st, {"*"})
           cs == IF t > st THEN st ELSE st - 1
       IN  IF t <= Len(s) /\ (t > st \/ a + b > 0)
           THEN <<"*">> \o SubSeq(s, cs, t - 1) \o <<"*">> \o
                repairEmphasis(s, t + 1)
           ELSE <<s[p]>> \o repairEmphasis(s, p + 1)

\* markdown.replace(/\\#/g, "-")
repairHash(s) == [p \in 1..Len(s) |-> IF s[p] = "\\#" THEN "-" ELSE s[p]]

repairMarkdown(markdown) == repairHash(repairEmphasis(markdown, 1))

(***************************************************************************)
(* Link rewriting of parseSite.                                            *)
(***************************************************************************)
MdSpan(text, target) == <<"[">> \o text \o <<"]", "(">> \o target \o <<")">>

\* the loop over the extracted links ls, from its n-th iteration on
RECURSIVE rewriteLinks(_, _, _)
rewriteLinks(normalizedMarkdown, ls, n) ==
  IF n > Len(ls) THEN normalizedMarkdown
  ELSE rewriteLinks(
         ReplaceFirst(normalizedMarkdown,
                      MdSpan(ls[n].text, ls[n].wholeLink),
                      MdSpan(ls[n].text,
                             ID_PREFIX \o convertLinkToId(ls[n].link))),
         ls, n + 1)

(***************************************************************************)
(* The browser and the wiki (the collaborators behind page.goto and        *)
(* page.evaluate).                                                         *)
(***************************************************************************)
\* document.location.pathname after page.goto(PREFIX + link): the URL parser
\* cuts the fragment or query off and percent-encodes a space
pathnameOf(link) ==
  LET cut == SubSeq(link, 1, FirstOf(link, 1, {"#", "?"}) - 1)
  IN  <<"/">> \o [p \in 1..Len(cut) |-> IF cut[p] = " " THEN "%20" ELSE cut[p]]

decodeURIComponent(s) ==
  [p \in 1..Len(s) |-> IF s[p] = "%20" THEN " " ELSE s[p]]

\* document.title of the page served at a pathname (document.title has no
\* leading or trailing white space, so the page at "/" has a name as well)
TitleOf(path) ==
  (IF LastSegment(path) = <<>> THEN <<"Start">> ELSE LastSegment(path))
  \o <<" - DSA Regel Wiki">>

E1 == ENTRY_POINTS[1]
E2 == ENTRY_POINTS[2]

\* the link spans [text](target) a page of the wiki may hold
LinkPool ==
  { [text |-> <<"Foo">>, target |-> E1],
    [text |-> <<"Foo">>, target |-> PREFIX \o E2],
    [text |-> <<"Foo">>, target |-> E2 \o <<"#", "top">>],
    [text |-> <<"Foo">>, target |-> <<"index.php", "/", "Gifte", "%20", "Liste", ".html">>],
    [text |-> <<"Foo">>, target |-> <<"index.php", "/", "Gifte", " ", "Liste", ".html">>],
    [text |-> <<"Foo">>, target |-> <<"index.php", "/", "archiv", "/", "regeln", ".html">>],
    [text |-> <<"Foo">>, target |-> <<"https:", "/", "/", "example.org", "/", "qux", ".html">>],
    [text |-> <<"\\#", " ", "Foo">>, target |-> PREFIX \o E1],
    [text |-> <<"Foo">>, target |-> <<>>] }

\* the markdown of a page whose content is a bullet list of link spans, as
\* parseMarkdown(...).trim() returns it
RECURSIVE BulletList(_, _)
BulletList(spans, n) ==
  IF n > Len(spans) THEN <<>>
  ELSE (IF n = 1 THEN <<>> ELSE <<"\n">>) \o <<"*", " ">> \o
       MdSpan(spans[n].text, spans[n].target) \o BulletList(spans, n + 1)

\* the breadcrumb trails the pages of a wiki may hold: [textContent,
\* href ?? null] pairs; href is <<string>>, or <<>> for null
Breadcrumbs ==
  { <<>>,
    << [name |-> <<"Regeln">>, href |-> <<PREFIX \o E1>>] >>,
    << [name |-> <<"Start">>, href |-> <<>>] >> }

\* a page that, once loaded, turns itself into another one: its timer moves
\* document.location.pathname to that of the second entry point and rewrites
\* the title and #main
ReplacingPage ==
  [markdown |-> BulletList(<< [text |-> <<"Foo">>, target |-> E1] >>, 1),
   found |-> TRUE,
   script |-> << [pathname |-> pathnameOf(E2),
                  markdown |-> BulletList(<< [text |-> <<"Foo">>,
                                              target |-> PREFIX \o E2] >>, 1)] >>]

\* the contents a page may have when it declares at most n links.  found
\* tells whether document.querySelector finds a <center> or a #main element;
\* when it finds neither, both fragments are "" (?? "") and the markdown is
\* parseMarkdown("\n\n").trim(), the empty string
\* script is what a timer the page's load handler starts does to the document
\* (history.replaceState and a rewrite of title and #main): <<>> for a page
\* without one, else <<[pathname, markdown]>>
Pages(n) ==
  { [markdown |-> BulletList(spans, 1), found |-> TRUE, script |-> <<>>] :
      spans \in UNION {[1..m -> LinkPool] : m \in 0..n} }
  \cup { [markdown |-> <<>>, found |-> FALSE, script |-> <<>>] }
  \cup (IF n >= 1 THEN {ReplacingPage} ELSE {})

\* the pathnames a crawl of these pages can visit
Paths ==
  {pathnameOf(ENTRY_POINTS[e]) : e \in 1..Len(ENTRY_POINTS)} \cup
  {pathnameOf(normalizeLink(sp.target)) : sp \in LinkPool}

(***************************************************************************)
(* State.                                                                  *)
(***************************************************************************)
VARIABLES
  nSeeds,            \* how many entries of ENTRY_POINTS this run is configured with
  trail,             \* the breadcrumb trail of the wiki's pages
  site,              \* the wiki: pathname -> <<page>> once served, <<>> before
  pc,                \* position of main: "seeding", "draining", "done", "failed"
  k,                 \* index into ENTRY_POINTS of the for loop of main
  i,                 \* the loop variable i of main, plus one
  links,             \* the frontier array of main
  entryPoints,       \* the entryPoints array of main
  alreadyParsedIds,  \* the visited set
  loaded,            \* the parseSite call between page.goto and page.evaluate:
                     \* <<>> or <<[link, document, script]>>, the document in the tab
                     \* and the timer of the page still pending
  cur,               \* the parseSite call after page.evaluate: <<>> or <<[link, content]>>
  reads,             \* the documents page.evaluate read, in order
  writes,            \* the calls of fs.writeFileSync, in order
  calls,             \* the arguments of the parseSite calls, in order
  err                \* what main().catch received: "none", "goto", "evaluate",
                     \* "TypeError", "write"

\* the state of a crawl
crawlVars == <<nSeeds, trail, site, pc, k, i, links, entryPoints, alreadyParsedIds,
               loaded, cur, reads, writes, calls, err>>

\* A call of one of the pure functions on its own, outside a crawl.
VARIABLES
  fn,                \* the function called: "normalizeLink", "convertLinkToId",
                     \* "parseLinks"; "main" in a crawl
  arg,               \* the input of the calls
  res,               \* the values returned so far, in order
  thrown             \* whether a call threw

fnVars == <<fn, arg, res, thrown>>

vars == <<nSeeds, trail, site, pc, k, i, links, entryPoints, alreadyParsedIds,
          loaded, cur, reads, writes, calls, err, fn, arg, res, thrown>>

Init ==
  /\ nSeeds \in 1..MaxSeeds
  /\ trail \in Breadcrumbs
  /\ site = [p \in Paths |-> <<>>]
  /\ pc = "seeding"
  /\ k = 1
  /\ i = 0
  /\ links = <<>>
  /\ entryPoints = <<>>
  /\ alreadyParsedIds = {}
  /\ loaded = <<>>
  /\ cur = <<>>
  /\ reads = <<>>
  /\ writes = <<>>
  /\ calls = <<>>
  /\ err = "none"
  /\ fn = "main"
  /\ arg = <<>>
  /\ res = <<>>
  /\ thrown = FALSE

(***************************************************************************)
(* parseSite.                                                              *)
(***************************************************************************)
\* how many links a page that is served for the first time may declare
Budget == IF Len(links) >= MaxFrontier THEN 0 ELSE MaxFrontier - Len(links)

\* the parseSite call main is about to make: <<link>>, or <<>> if none
CallDue ==
  IF pc = "seeding" /\ k <= nSeeds /\ loaded = <<>> /\ cur = <<>> THEN <<ENTRY_POINTS[k]>>
  ELSE IF /\ pc = "draining" /\ loaded = <<>> /\ cur = <<>> /\ i + 1 <= Len(links)
          /\ links[i + 1].link \notin alreadyParsedIds
       THEN <<links[i + 1].link>>
       ELSE <<>>

\* await page.goto(PREFIX + link) resolves: the wiki has served the page and
\* the tab holds its document; the page's timer, if it has one, is pending
ParseSiteGoto(link) ==
  LET path == pathnameOf(link)
  IN  /\ \E page \in (IF site[path] # <<>> THEN {site[path][1]} ELSE Pages(Budget)) :
           /\ site' = [site EXCEPT ![path] = <<page>>]
           /\ loaded' = << [link |-> link,
                            document |-> [pathname |-> path,
                                          title |-> TitleOf(path),
                                          markdown |-> page.markdown,
                                          found |-> page.found],
                            script |-> page.script] >>
      /\ calls' = Append(calls, link)

\* between the two awaits the page's timer fires: history.replaceState and a
\* rewrite of document.title and #main
PageScript ==
  /\ UNCHANGED fnVars
  /\ pc \in {"seeding", "draining"}
  /\ loaded # <<>>
  /\ loaded[1].script # <<>>
  /\ loaded' = << [link |-> loaded[1].link,
                   document |-> [pathname |-> loaded[1].script[1].pathname,
                                 title |-> TitleOf(loaded[1].script[1].pathname),
                                 markdown |-> loaded[1].script[1].markdown,
                                 found |-> TRUE],
                   script |-> <<>>] >>
  /\ UNCHANGED <<nSeeds, trail, site, pc, k, i, links, entryPoints, alreadyParsedIds, cur,
                 reads, writes, calls, err>>

\* const content = await page.evaluate(...) resolves with what the document
\* in the tab holds at that moment
ParseSiteEvaluate ==
  /\ UNCHANGED fnVars
  /\ pc \in {"seeding", "draining"}
  /\ loaded # <<>>
  /\ cur' = << [link |-> loaded[1].link,
                content |-> [id |-> loaded[1].document.pathname,
                             title |-> loaded[1].document.title,
                             markdown |-> loaded[1].document.markdown,
                             breadcrumb |-> trail]] >>
  /\ reads' = Append(reads, loaded[1].document)
  /\ loaded' = <<>>
  /\ UNCHANGED <<nSeeds, trail, site, pc, k, i, links, entryPoints, alreadyParsedIds,
                 writes, calls, err>>

\* The pure steps of parseSite, tabulated over the markdown texts, pathnames
\* and breadcrumb trails of the model (a constant is evaluated once).

\* every markdown text a page of the model may have
Markdowns == {page.markdown : page \in Pages(MaxFrontier)}

\* per markdown text: whether parseLinks throws, const links =
\* parseLinks(markdown), and normalizedMarkdown after the repairs and the
\* rewrite loop (<<>> stands in where parseLinks throws)
markdownSteps ==
  { [markdown |-> md,
     throws |-> parseLinksThrows(md),
     links |-> IF parseLinksThrows(md) THEN <<>> ELSE parseLinks(md),
     normalizedMarkdown |->
       IF parseLinksThrows(md) THEN <<>>
       ELSE rewriteLinks(repairMarkdown(md), parseLinks(md), 1)] :
    md \in Markdowns }

\* per pathname: fsId = `${ID_PREFIX}${id}` with id from the decoded
\* pathname, and the sanitized title
pathSteps ==
  { [path |-> path,
     fsId |-> ID_PREFIX \o convertLinkToId(decodeURIComponent(path)),
     title |-> sanitizeTitle(TitleOf(path))] :
    path \in Paths }

\* per breadcrumb trail: whether linkToId throws (an entry without href),
\* and content.breadcrumb.map(([name, link]) => ... linkToId(link) ...)
trailSteps ==
  { [trail |-> bc,
     throws |-> \E b \in 1..Len(bc) : bc[b].href = <<>>,
     links |-> IF \E b \in 1..Len(bc) : bc[b].href = <<>> THEN <<>>
               ELSE [b \in 1..Len(bc) |->
                       [name |-> bc[b].name, linkId |-> linkToId(bc[b].href[1])]]] :
    bc \in Breadcrumbs }

ofMarkdown(md) == CHOOSE r \in markdownSteps : r.markdown = md
ofPath(path) == CHOOSE r \in pathSteps : r.path = path
ofTrail(bc) == CHOOSE r \in trailSteps : r.trail = bc

\* the links parseSite returns for a page
linksOf(md) == ofMarkdown(md).links

\* the statements of parseSite after the awaits throw a TypeError: in
\* parseLinks (exec returned null) or in linkToId(null)
parseSiteThrows(content) ==
  ofMarkdown(content.markdown).throws \/ ofTrail(content.breadcrumb).throws

\* content.breadcrumb.map(([name, link]) => `[${name}](${linkToId(link)})`)
\* .join(" > "), from the n-th entry of the mapped trail on
RECURSIVE breadcrumbLine(_, _)
breadcrumbLine(crumbs, n) ==
  IF n > Len(crumbs) THEN <<>>
  ELSE (IF n = 1 THEN <<>> ELSE <<" ", ">", " ">>)
       \o MdSpan(crumbs[n].name, crumbs[n].linkId)
       \o breadcrumbLine(crumbs, n + 1)

\* prettier.format(text, { filepath: "foo.md" }): the formatter is a library
\* outside the program; its result is kept as the call that produces it
prettierFormat(text) ==
  [formatter |-> "prettier.format", filepath |-> "foo.md", text |-> text]

\* the document parseSite passes to fs.writeFileSync: the file name, the
\* fields of the front matter, and the formatted text after it
parseSiteDocument(content) ==
  [name |-> ofPath(content.id).fsId \o <<".md">>,
   id |-> ofPath(content.id).fsId,
   title |-> ofPath(content.id).title,
   tags |-> [b \in 1..Len(content.breadcrumb) |-> content.breadcrumb[b].name],
   is_entry_point |-> FALSE,
   body |-> prettierFormat(
              breadcrumbLine(ofTrail(content.breadcrumb).links, 1)
              \o <<"\n", "\n">>
              \o ofMarkdown(content.markdown).normalizedMarkdown),
   path |-> content.id]

\* the synchronous rest of parseSite: write the document, mark the link,
\* return to main, which appends the links (and the entry point when seeding)
ParseSiteReturn ==
  /\ UNCHANGED fnVars
  /\ pc \in {"seeding", "draining"}
  /\ cur # <<>>
  /\ ~parseSiteThrows(cur[1].content)
  /\ LET doc == parseSiteDocument(cur[1].content)
     IN  /\ writes' = Append(writes, doc)
         /\ alreadyParsedIds' = alreadyParsedIds \cup {cur[1].link}
         /\ links' = links \o linksOf(cur[1].content.markdown)
         /\ IF pc = "seeding"
            THEN /\ entryPoints' = Append(entryPoints, [id |-> doc.id, title |-> doc.title])
                 /\ k' = k + 1
            ELSE UNCHANGED <<entryPoints, k>>
  /\ cur' = <<>>
  /\ UNCHANGED <<nSeeds, trail, site, pc, i, loaded, reads, calls, err>>

(***************************************************************************)
(* main.                                                                   *)
(***************************************************************************)
\* for (const entryPointLink of ENTRY_POINTS) parseSite(page, entryPointLink)
SeedParse ==
  /\ UNCHANGED fnVars
  /\ pc = "seeding" /\ k <= nSeeds /\ loaded = <<>> /\ cur = <<>>
  /\ ParseSiteGoto(ENTRY_POINTS[k])
  /\ UNCHANGED <<nSeeds, trail, pc, k, i, links, entryPoints, alreadyParsedIds, cur, reads,
                 writes, err>>

\* writeEntryPointFile called before the last entry point is processed
writeEntryPointFileEarly ==
  /\ UNCHANGED fnVars
  /\ pc = "seeding" /\ k >= nSeeds /\ loaded = <<>> /\ cur = <<>>
  /\ writes' = Append(writes,
       [name |-> ID_PREFIX \o <<"start", ".md">>,
        id |-> ID_PREFIX \o <<"start">>,
        title |-> <<"DSA Wiki">>,
        tags |-> <<>>,
        is_entry_point |-> TRUE,
        body |-> entryPoints,
        path |-> <<>>])
  /\ pc' = "draining"
  /\ i' = 0
  /\ UNCHANGED <<nSeeds, trail, site, k, links, entryPoints, alreadyParsedIds, loaded, cur, reads, calls, err>>

writeEntryPointFile ==
  /\ UNCHANGED fnVars
  /\ pc = "seeding" /\ k > nSeeds /\ loaded = <<>> /\ cur = <<>>
  /\ writes' = Append(writes,
       [name |-> ID_PREFIX \o <<"start", ".md">>,
        id |-> ID_PREFIX \o <<"start">>,
        title |-> <<"DSA Wiki">>,
        tags |-> <<>>,
        is_entry_point |-> TRUE,
        body |-> entryPoints,
        path |-> <<>>])
  /\ pc' = "draining"
  /\ i' = 0
  /\ UNCHANGED <<nSeeds, trail, site, k, links, entryPoints, alreadyParsedIds, loaded, cur, reads, calls, err>>

\* DrainSkip with the continue taken before i is advanced
DrainSkipNoAdvance ==
  /\ pc = "draining" /\ loaded = <<>> /\ cur = <<>>
  /\ i + 1 <= Len(links)
  /\ links[i + 1].link \in alreadyParsedIds
  /\ UNCHANGED vars

\* if (alreadyParsedIds.has(link.link)) continue;
DrainSkip ==
  /\ UNCHANGED fnVars
  /\ pc = "draining" /\ loaded = <<>> /\ cur = <<>>
  /\ i + 1 <= Len(links)
  /\ links[i + 1].link \in alreadyParsedIds
  /\ i' = i + 1
  /\ UNCHANGED <<nSeeds, trail, site, pc, k, links, entryPoints, alreadyParsedIds, loaded, cur, reads,
                 writes, calls, err>>

\* DrainParse without the test of the visited set
DrainParseNoCheck ==
  /\ UNCHANGED fnVars
  /\ pc = "draining" /\ loaded = <<>> /\ cur = <<>>
  /\ i + 1 <= Len(links)
  /\ i' = i + 1
  /\ ParseSiteGoto(links[i + 1].link)
  /\ UNCHANGED <<nSeeds, trail, pc, k, links, entryPoints, alreadyParsedIds, cur, reads,
                 writes, err>>

\* const [, newLinks] = await parseSite(page, link.link)
DrainParse ==
  /\ UNCHANGED fnVars
  /\ pc = "draining" /\ loaded = <<>> /\ cur = <<>>
  /\ i + 1 <= Len(links)
  /\ links[i + 1].link \notin alreadyParsedIds
  /\ i' = i + 1
  /\ ParseSiteGoto(links[i + 1].link)
  /\ UNCHANGED <<nSeeds, trail, pc, k, links, entryPoints, alreadyParsedIds, cur, reads,
                 writes, err>>

\* DrainBreak leaving the loop one entry early
DrainBreakEarly ==
  /\ UNCHANGED fnVars
  /\ pc = "draining" /\ loaded = <<>> /\ cur = <<>>
  /\ i + 1 >= Len(links)
  /\ i' = i + 1
  /\ pc' = "done"
  /\ UNCHANGED <<nSeeds, trail, site, k, links, entryPoints, alreadyParsedIds, loaded, cur, reads,
                 writes, calls, err>>

\* if (!link) break; await browser.close()
DrainBreak ==
  /\ UNCHANGED fnVars
  /\ pc = "draining" /\ loaded = <<>> /\ cur = <<>>
  /\ i + 1 > Len(links)
  /\ i' = i + 1
  /\ pc' = "done"
  /\ UNCHANGED <<nSeeds, trail, site, k, links, entryPoints, alreadyParsedIds, loaded, cur, reads,
                 writes, calls, err>>

(***************************************************************************)
(* Failures: whatever parseSite or writeEntryPointFile throws rejects main *)
(* and main().catch ends the run.                                          *)
(***************************************************************************)
\* page.goto rejects
GotoFails ==
  /\ UNCHANGED fnVars
  /\ CallDue # <<>>
  /\ calls' = Append(calls, CallDue[1])
  /\ i' = IF pc = "draining" THEN i + 1 ELSE i
  /\ pc' = "failed"
  /\ err' = "goto"
  /\ UNCHANGED <<nSeeds, trail, site, k, links, entryPoints, alreadyParsedIds, loaded, cur, reads, writes>>

\* page.evaluate rejects, after page.goto resolved
EvaluateFails ==
  /\ UNCHANGED fnVars
  /\ pc \in {"seeding", "draining"}
  /\ loaded # <<>>
  /\ pc' = "failed"
  /\ err' = "evaluate"
  /\ UNCHANGED <<nSeeds, trail, site, k, i, links, entryPoints, alreadyParsedIds, loaded, cur,
                 reads, writes, calls>>

\* a statement of parseSite after the awaits throws a TypeError
ParseSiteThrows ==
  /\ UNCHANGED fnVars
  /\ pc \in {"seeding", "draining"}
  /\ cur # <<>>
  /\ parseSiteThrows(cur[1].content)
  /\ pc' = "failed"
  /\ err' = "TypeError"
  /\ UNCHANGED <<nSeeds, trail, site, k, i, links, entryPoints, alreadyParsedIds, loaded, cur, reads,
                 writes, calls>>

\* WriteFails with alreadyParsedIds.add(link) moved before fs.writeFileSync
WriteFailsMarked ==
  /\ UNCHANGED fnVars
  /\ pc \in {"seeding", "draining"}
  /\ \/ /\ cur # <<>> /\ ~parseSiteThrows(cur[1].content)
        /\ alreadyParsedIds' = alreadyParsedIds \cup {cur[1].link}
     \/ /\ pc = "seeding" /\ k > nSeeds /\ loaded = <<>> /\ cur = <<>>
        /\ UNCHANGED alreadyParsedIds
  /\ pc' = "failed"
  /\ err' = "write"
  /\ UNCHANGED <<nSeeds, trail, site, k, i, links, entryPoints, loaded, cur, reads, writes,
                 calls>>

\* fs.writeFileSync throws, in parseSite or in writeEntryPointFile
WriteFails ==
  /\ UNCHANGED fnVars
  /\ pc \in {"seeding", "draining"}
  /\ \/ cur # <<>> /\ ~parseSiteThrows(cur[1].content)
     \/ pc = "seeding" /\ k > nSeeds /\ loaded = <<>> /\ cur = <<>>
  /\ pc' = "failed"
  /\ err' = "write"
  /\ UNCHANGED <<nSeeds, trail, site, k, i, links, entryPoints, alreadyParsedIds, loaded, cur, reads,
                 writes, calls>>

Next ==
  \/ SeedParse
  \/ PageScript
  \/ ParseSiteEvaluate
  \/ ParseSiteReturn
  \/ writeEntryPointFile
  \/ DrainSkip
  \/ DrainParse
  \/ DrainBreak
  \/ GotoFails
  \/ EvaluateFails
  \/ ParseSiteThrows
  \/ WriteFails

Spec == Init /\ [][Next]_vars

\* the run goes on whenever main has a step to take (one thread, no waiting
\* other than for the awaited calls)
FairSpec == Init /\ [][Next]_vars /\ WF_vars(Next)

(***************************************************************************)
(* The pure functions called on their own.                                 *)
(***************************************************************************)
\* the tokens of the link strings normalizeLink is called with
LinkAlphabet == {"https:", "http:", "/", "ulisses-regelwiki.de", "a"}

LinkStrings == UNION {[1..m -> LinkAlphabet] : m \in 0..MaxLinkLen}

\* the pairs of entries of ENTRY_POINTS
EntryPointPairs ==
  {<<ENTRY_POINTS[a], ENTRY_POINTS[b]>> :
     a \in 1..Len(ENTRY_POINTS), b \in 1..Len(ENTRY_POINTS)}

\* the pieces the texts parseLinks is called with are made of: link spans
\* (one with a site-absolute target, one with a target over two lines) and
\* single characters
PiecePool ==
  { MdSpan(<<"a">>, <<"b">>),
    MdSpan(<<"c">>, PREFIX \o <<"d">>),
    MdSpan(<<"a">>, <<"b", "\n", "c">>),
    <<"[">>, <<"]">>, <<"(">>, <<")">>, <<"x">>, <<" ">>, <<"\n">> }

RECURSIVE Concat(_, _)
Concat(pieces, n) ==
  IF n > Len(pieces) THEN <<>> ELSE pieces[n] \o Concat(pieces, n + 1)

Texts ==
  {Concat(pieces, 1) : pieces \in UNION {[1..m -> PiecePool] : m \in 0..MaxPieces}}

\* no crawl is running
NoCrawl ==
  /\ nSeeds = 1
  /\ trail = <<>>
  /\ site = [p \in Paths |-> <<>>]
  /\ pc = "done"
  /\ k = 1
  /\ i = 0
  /\ links = <<>>
  /\ entryPoints = <<>>
  /\ alreadyParsedIds = {}
  /\ loaded = <<>>
  /\ cur = <<>>
  /\ reads = <<>>
  /\ writes = <<>>
  /\ calls = <<>>
  /\ err = "none"

FnInit ==
  /\ NoCrawl
  /\ \/ fn = "normalizeLink" /\ arg \in LinkStrings
     \/ fn = "convertLinkToId" /\ arg \in EntryPointPairs
     \/ fn = "parseLinks" /\ arg \in Texts
  /\ res = <<>>
  /\ thrown = FALSE

\* normalizeLink(arg), then normalizeLink of what that returned
ApplyNormalizeLink ==
  /\ fn = "normalizeLink" /\ Len(res) < 2
  /\ res' = Append(res, normalizeLink(IF res = <<>> THEN arg ELSE res[Len(res)]))
  /\ UNCHANGED <<crawlVars, fn, arg, thrown>>

\* convertLinkToId of the first, then of the second entry point of the pair
ApplyConvertLinkToId ==
  /\ fn = "convertLinkToId" /\ Len(res) < 2
  /\ res' = Append(res, convertLinkToId(arg[Len(res) + 1]))
  /\ UNCHANGED <<crawlVars, fn, arg, thrown>>

\* parseLinks(arg) returns its results
ApplyParseLinks ==
  /\ fn = "parseLinks" /\ res = <<>> /\ ~thrown
  /\ ~parseLinksThrows(arg)
  /\ res' = <<parseLinks(arg)>>
  /\ UNCHANGED <<crawlVars, fn, arg, thrown>>

\* parseLinks(arg) throws the TypeError of destructuring null
ApplyParseLinksThrows ==
  /\ fn = "parseLinks" /\ res = <<>> /\ ~thrown
  /\ parseLinksThrows(arg)
  /\ thrown' = TRUE
  /\ UNCHANGED <<crawlVars, fn, arg, res>>

FnNext ==
  \/ ApplyNormalizeLink
  \/ ApplyConvertLinkToId
  \/ ApplyParseLinks
  \/ ApplyParseLinksThrows

FnSpec == FnInit /\ [][FnNext]_vars

(***************************************************************************)
(* Properties.                                                             *)
(***************************************************************************)
Contains(s, pat) == IndexOf(s, pat) # 0

\* the indices in writes of the documents parseSite wrote
PageDocs == {w \in 1..Len(writes) : ~writes[w].is_entry_point}

\* the position in calls and in reads of the parseSite call that wrote the
\* document writes[w]: the calls before it all returned, and the root
\* document is the one write that is not parseSite's
CallIndex(w) == IF w <= nSeeds THEN w ELSE w - 1

\* the link the call that wrote writes[w] was made with
CallOf(w) == calls[CallIndex(w)]

\* the document page.evaluate read in the call that wrote writes[w]
ReadOf(w) == reads[CallIndex(w)]

\* the links parseLinks extracted in the call that wrote writes[w]
LinksOf(w) ==
  LET ls == linksOf(ReadOf(w).markdown)
  IN  {ls[j] : j \in 1..Len(ls)}

\* the markdown of a document of parseSite as it is handed to
\* prettier.format: the breadcrumb line, an empty line, normalizedMarkdown
BodyText(w) == writes[w].body.text

\* the local target the rewrite loop writes for a link
LocalId(l) == ID_PREFIX \o convertLinkToId(l.link)

\* C1: a target that is in the visited set has been passed to parseSite
\* exactly once, however often it was discovered; no call is made for a
\* target that is already visited.
C1_VisitedOnce ==
  \A t \in alreadyParsedIds :
    Cardinality({c \in 1..Len(calls) : calls[c] = t}) = 1

\* an entry point was found again as a link target during draining and was
\* skipped
C1_Witness ==
  /\ pc = "draining" /\ cur = <<>> /\ i >= 1
  /\ links[i].link = E1
  /\ Cardinality({c \in 1..Len(calls) : calls[c] = E1}) = 1

\* C2: a run in which no fetch, conversion or write fails reaches Done.
C2_Terminates == [](pc # "failed") => <>(pc = "done")

\* the crawl is done on a wiki with a page that links to itself
C2_Witness ==
  /\ pc = "done"
  /\ \E w \in PageDocs :
       \E l \in LinksOf(w) : pathnameOf(l.link) = writes[w].path

\* C3: two seed pages A and B that link to each other and to nothing else,
\* read as they were served and with markdown the repairs of parseSite leave
\* as it is: parseSite is called exactly twice, and each body holds the link
\* to the other page as a local link to that page's document id and not as
\* the original target.
C3_TwoSeedCycle ==
  LET A == pathnameOf(E1)
      B == pathnameOf(E2)
      OnlyLinksTo(w, p, q) ==
        /\ writes[w].path = p
        /\ repairMarkdown(ReadOf(w).markdown) = ReadOf(w).markdown
        /\ LinksOf(w) # {}
        /\ \A l \in LinksOf(w) : pathnameOf(l.link) = q
      Localised(w, v) ==
        \A l \in LinksOf(w) :
          /\ Contains(BodyText(w), MdSpan(l.text, writes[v].id))
          /\ ~Contains(BodyText(w), <<"]", "(">> \o l.wholeLink \o <<")">>)
  IN  (pc = "done" /\ nSeeds = 2 /\ OnlyLinksTo(1, A, B) /\ OnlyLinksTo(2, B, A)) =>
        /\ Len(calls) = 2
        /\ Localised(1, 2)
        /\ Localised(2, 1)

\* C4: at Done the whole frontier has been consumed, every frontier link's
\* target is in the visited set, and for every visited target the page was
\* fetched and the call for it wrote a document.
C4_Complete ==
  pc = "done" =>
    /\ i = Len(links) + 1
    /\ \A j \in 1..Len(links) : links[j].link \in alreadyParsedIds
    /\ \A t \in alreadyParsedIds :
         /\ site[pathnameOf(t)] # <<>>
         /\ \E w \in PageDocs : CallOf(w) = t

\* the crawl is done and processed a page that only the frontier led to
C4_Witness ==
  /\ pc = "done"
  /\ Len(writes) > nSeeds + 1
  /\ \E j \in 1..Len(links) :
       \A e \in 1..nSeeds : links[j].link # ENTRY_POINTS[e]

\* C5: no output file is written twice in a run.
C5_WrittenOnce ==
  \A a, b \in 1..Len(writes) : a # b => writes[a].name # writes[b].name

\* C6: documents of distinct pages (distinct pathnames) have distinct ids.
C6_Injective ==
  \A a, b \in PageDocs :
    writes[a].path # writes[b].path => writes[a].id # writes[b].id

\* a local id without the #fragment it may carry
WithoutFragment(id) ==
  LET h == IndexOf(id, <<"#">>)
  IN  IF h = 0 THEN id ELSE SubSeq(id, 1, h - 1)

\* C7: the local id a body holds for a link is, up to a #fragment, the id of
\* the document that a call for the page the link leads to writes.
C7_NoDangling ==
  \A a, b \in PageDocs :
    \A l \in LinksOf(a) :
      ( /\ Contains(BodyText(a), MdSpan(l.text, LocalId(l)))
        /\ pathnameOf(CallOf(b)) = pathnameOf(l.link) )
      => WithoutFragment(LocalId(l)) = writes[b].id

\* a link target that names another host than the wiki
IsForeign(target) ==
  /\ Len(target) >= 4
  /\ target[1] \in {"https:", "http:"}
  /\ target[4] # "ulisses-regelwiki.de"

\* C8: a link without path segments or to another host keeps its original
\* span in the written body.
C8_ForeignUntouched ==
  \A a \in PageDocs :
    \A l \in LinksOf(a) :
      (l.wholeLink = <<>> \/ IsForeign(l.wholeLink)) =>
        Contains(BodyText(a), MdSpan(l.text, l.wholeLink))

\* C9: in a written body every extracted link has the local id as its target
\* and no extracted target is left as it was.
C9_RewriteTotal ==
  \A a \in PageDocs :
    \A l \in LinksOf(a) :
      /\ Contains(BodyText(a), <<"]", "(">> \o LocalId(l) \o <<")">>)
      /\ ~Contains(BodyText(a), <<"]", "(">> \o l.wholeLink \o <<")">>)

\* C10: when a run has ended after the document write of a page failed, no
\* frontier entry other than the one whose write failed is left unprocessed.
C10_WriteFailureContinues ==
  (pc = "failed" /\ err = "write" /\ cur # <<>>) =>
    \A j \in 1..Len(links) :
      \/ links[j].link \in alreadyParsedIds
      \/ links[j].link = cur[1].link

\* C11: parseSite fails when the page cannot be reached or holds neither a
\* <center> nor a #main element: a failed page.goto or page.evaluate ends the
\* call without a document and without a visited mark, and no document is
\* written for a page read without both fragments.
C11_NoContentFails ==
  /\ err \in {"goto", "evaluate"} => calls[Len(calls)] \notin alreadyParsedIds
  /\ \A w \in PageDocs : ReadOf(w).found

\* C12: normalizeLink applied to its own result returns that result: what
\* normalizeLink returned is site-relative and is returned as it is.
C12_Idempotent ==
  (fn = "normalizeLink" /\ Len(res) = 2) => res[2] = res[1]

\* C13: the same entry point always gets the same id, and two distinct
\* entries of ENTRY_POINTS get distinct ids from convertLinkToId and distinct
\* document ids for the pages they are served at.
C13_EntryPointsCollisionFree ==
  (fn = "convertLinkToId" /\ Len(res) = 2) =>
    /\ arg[1] = arg[2] => res[1] = res[2]
    /\ arg[1] # arg[2] =>
         /\ res[1] # res[2]
         /\ ofPath(pathnameOf(arg[1])).fsId # ofPath(pathnameOf(arg[2])).fsId

\* convertLinkToId was applied to the last two entry points
C13_Witness ==
  /\ fn = "convertLinkToId"
  /\ arg = <<ENTRY_POINTS[12], ENTRY_POINTS[13]>>
  /\ res = << <<"GifteundKrankheiten">>, <<"WdV18">> >>

\* C14: the first calls of parseSite are for the entry points, in declared
\* order and one call each; the manifest holds the (id, title) of their
\* documents in that order; the root document is written once, right after
\* the document of the last entry point, with the whole manifest as its body,
\* and no frontier link is processed before it.
C14_SeedingOrder ==
  /\ \A c \in 1..Len(calls) : c <= nSeeds => calls[c] = ENTRY_POINTS[c]
  /\ \A e \in 1..Len(entryPoints) :
       /\ CallOf(e) = ENTRY_POINTS[e]
       /\ entryPoints[e] = [id |-> writes[e].id, title |-> writes[e].title]
  /\ \A w \in 1..Len(writes) : writes[w].is_entry_point <=> w = nSeeds + 1
  /\ Len(calls) > nSeeds => Len(writes) > nSeeds
  /\ pc = "seeding" => Len(entryPoints) = k - 1 /\ Len(calls) <= k
  /\ pc \in {"draining", "done"} =>
       /\ Len(entryPoints) = nSeeds
       /\ Len(writes) > nSeeds
       /\ writes[nSeeds + 1].body = entryPoints
       /\ \A e \in 1..nSeeds :
            Cardinality({c \in 1..Len(calls) : calls[c] = ENTRY_POINTS[e]}) = 1

\* both entry points are processed, the root document is written and
\* draining is about to start on a frontier that is not empty
C14_Witness ==
  /\ pc = "draining" /\ i = 0 /\ nSeeds = 2
  /\ Len(writes) = 3 /\ writes[3].is_entry_point
  /\ Len(entryPoints) = 2
  /\ Len(links) > 0

\* The inline link that starts at position p of a text, by the rule of a
\* single-level, non-greedy match: "[", a display text of at least one
\* character without "[" and "]", "](", a target without "[", "]" and ")",
\* and ")".  <<q, c>> are the positions of "]" and of the closing ")"; <<>>
\* when no link starts at p.
InlineLinkAt(text, p) ==
  IF p > Len(text) \/ text[p] # "[" THEN <<>>
  ELSE LET q == FirstOf(text, p + 1, {"[", "]"})
           c == FirstOf(text, q + 2, {"[", "]", ")"})
       IN  IF /\ q >= p + 2 /\ q + 1 <= Len(text)
              /\ text[q] = "]" /\ text[q + 1] = "("
              /\ c <= Len(text) /\ text[c] = ")"
           THEN <<q, c>> ELSE <<>>

\* the inline links of a text from position p on, left to right
RECURSIVE InlineLinks(_, _)
InlineLinks(text, p) ==
  IF p > Len(text) THEN <<>>
  ELSE LET qc == InlineLinkAt(text, p)
       IN  IF qc = <<>> THEN InlineLinks(text, p + 1)
           ELSE << [text |-> SubSeq(text, p + 1, qc[1] - 1),
                    wholeLink |-> SubSeq(text, qc[1] + 2, qc[2] - 1),
                    link |-> normalizeLink(SubSeq(text, qc[1] + 2, qc[2] - 1))] >>
                \o InlineLinks(text, qc[2] + 1)

\* C15: when parseLinks returns, its records are the inline links of the
\* input in left-to-right order, each with the display text, the target as
\* written and the normalized target.
C15_OneRecordPerLink ==
  (fn = "parseLinks" /\ res # <<>>) => res[1] = InlineLinks(arg, 1)

\* C16: parseLinks throws on no text.
C16_NeverThrows == fn = "parseLinks" => ~thrown

\* C17: while parseSite is at work on a frontier link, the link is in the
\* visited set.
C17_MarkedBeforeProcessing ==
  /\ (pc = "draining" /\ loaded # <<>>) => loaded[1].link \in alreadyParsedIds
  /\ (pc = "draining" /\ cur # <<>>) => cur[1].link \in alreadyParsedIds

\* C18: every span parseLinks recorded for a written page is a span of the
\* repaired markdown, the text the rewrite loop searches.
C18_RepairsBeforeExtraction ==
  \A a \in PageDocs :
    \A l \in LinksOf(a) :
      Contains(repairMarkdown(ReadOf(a).markdown),
               MdSpan(l.text, l.wholeLink))

\* C19: the visited set has one member per document parseSite wrote; each
\* member was passed to parseSite and the document of its page is written;
\* the link of a call that is in progress or has failed is not a member.
C19_VisitedOnlyWritten ==
  /\ Cardinality(alreadyParsedIds) = Cardinality(PageDocs)
  /\ \A t \in alreadyParsedIds :
       /\ \E c \in 1..Len(calls) : calls[c] = t
       /\ \E w \in PageDocs : CallOf(w) = t
  /\ loaded # <<>> => loaded[1].link \notin alreadyParsedIds
  /\ cur # <<>> => cur[1].link \notin alreadyParsedIds
  /\ err \in {"goto", "evaluate"} => calls[Len(calls)] \notin alreadyParsedIds

\* a document write failed after an earlier page had been processed
C19_Witness ==
  /\ pc = "failed" /\ err = "write" /\ cur # <<>>
  /\ alreadyParsedIds # {}
  /\ cur[1].link \notin alreadyParsedIds

\* C20: on a wiki whose breadcrumb trail has an entry without href no
\* parseSite call ends in a TypeError.
C20_NullHrefCompletes ==
  (\E b \in 1..Len(trail) : trail[b].href = <<>>) => err # "TypeError"

====
